---- MODULE Spec2Model ----
(***************************************************************************)
(* Model of src/vllm-chat/service.py: the template cache                   *)
(* (_get_gen_config), the request construction of VLLM.generate and        *)
(* VLLM.chat, and the delta streaming loops of both handlers.              *)
(*                                                                         *)
(* Texts are sequences of one-character strings.  Python values that may   *)
(* be None, a str or a list are tagged records [tag, v].                   *)
(***************************************************************************)
EXTENDS Integers, Sequences, FiniteSets, TLC

\* ------------------------------------------------------------------ bounds
MaxLen == 1          \* longest enumerated snapshot text
MaxSnaps == 4        \* snapshots the engine sends on one stream
ApiMaxSnaps == 2     \* snapshots per stream in the request-level specification
MaxModelLen == 130   \* ENGINE_CONFIG["max_model_len"] of the deployment
MaxCalls == 3        \* resolves counted by the load probe
NormMaxLen == 6      \* longest enumerated template text

\* ------------------------------------------------------- program constants
MinMaxTokens == 128  \* Ge(128)
LruMaxsize == 1      \* functools.lru_cache(maxsize=1)
IndentRun == 4       \* the "    " literal of replace("    ", "")

\* ------------------------------------------------------------ Python values
PyNone == [tag |-> "None", v |-> <<>>]
PyStr(s) == [tag |-> "str", v |-> <<s>>]
PyList(l) == [tag |-> "list", v |-> l]

\* Python truth value of None / str / list
Truthy(x) ==
  CASE x.tag = "None" -> FALSE
    [] x.tag = "str" -> x.v[1] # ""
    [] x.tag = "list" -> x.v # <<>>

\* ------------------------------------------------------------------- texts
Alphabet == {" ", "a"}
Whitespace == {" ", "\n", "\t", "\r"}

RECURSIVE SeqsUpTo(_, _)
SeqsUpTo(S, n) ==
  IF n = 0 THEN {<<>>}
  ELSE LET shorter == SeqsUpTo(S, n - 1)
       IN shorter \cup {Append(s, c) : s \in {t \in shorter : Len(t) = n - 1}, c \in S}

ExampleSnaps ==
  << <<>>,
     <<" ">>,
     <<" ", "H", "i">>,
     <<" ", "H", "i", " ", "t", "h", "e", "r", "e">> >>

\* texts with leading and with trailing whitespace
ExtraTexts == {<<" ", "a">>, <<"a", " ">>}

Texts ==
  SeqsUpTo(Alphabet, MaxLen) \cup {ExampleSnaps[i] : i \in 1..Len(ExampleSnaps)}
    \cup ExtraTexts
ApiTexts == SeqsUpTo(Alphabet, 1)
ConcTexts == {<<" ">>, <<" ", "a">>}

\* text[cursor:]
SliceFrom(text, cursor) == SubSeq(text, cursor + 1, Len(text))

\* str.lstrip(): drop the longest all-whitespace prefix
RECURSIVE lstrip(_)
lstrip(s) ==
  IF s # <<>> /\ Head(s) \in Whitespace THEN lstrip(Tail(s)) ELSE s

\* str.rstrip()
RECURSIVE rstrip(_)
rstrip(s) ==
  IF s # <<>> /\ s[Len(s)] \in Whitespace THEN rstrip(SubSeq(s, 1, Len(s) - 1)) ELSE s

\* str.strip()
strip(s) == rstrip(lstrip(s))

\* ------------------------------------------------------------------- state
VARIABLES
  CHAT_TEMPLATE,            \* CONSTANTS.get("chat_template"): None or a name
  descriptors,              \* chat_templates/generation_configs/<name>.json
  assets,                   \* chat_templates/chat_templates/<file>
  eos_token,                \* self.tokenizer.eos_token
  tokenizer_chat_template,  \* self.tokenizer.chat_template
  heap,                     \* message list objects owned by callers
  cache,                    \* entries kept by lru_cache, most recent last
  loads,                    \* per name: executions of the body of _get_gen_config
  opens,                    \* open() calls made so far
  last,                     \* name and outcome of the latest _get_gen_config call
  failed,                   \* per name: the exception of its latest failed call, if any
  pc,                       \* position of the request's coroutine
  mode,                     \* which handler serves the request
  args,                     \* arguments of the call
  engineReq,                \* add_request call handed to the engine
  rendered,                 \* message list handed to apply_chat_template
  cursor,
  strip_flag,
  snaps,                    \* snapshot texts received from the engine stream
  out,                      \* fragments yielded to the client
  outAt,                    \* cursor value at each yield
  reqs,                     \* the coroutines of concurrently served requests
  engine,                   \* the engine's requests by id, and the abort calls it got
  norm                      \* a template text and what _get_gen_config makes of it

envVars == <<CHAT_TEMPLATE, descriptors, assets, eos_token>>
cacheVars == <<cache, loads, opens, last, failed>>
callVars == <<tokenizer_chat_template, heap, args, engineReq, rendered>>
streamVars == <<cursor, strip_flag, snaps, out, outAt>>
concVars == <<reqs, engine>>
normVars == <<norm>>
vars == <<envVars, cacheVars, callVars, streamVars, pc, mode, concVars, normVars>>

\* ------------------------------------------------------------ delta streamer
\* yield text: the cumulative text goes out instead of its new suffix
GenerateYield_Cumulative(text, cur) == text

\* yield text[cursor:].lstrip(): the chat filter applied to raw output
GenerateYield_Stripped(text, cur) == lstrip(SliceFrom(text, cur))

\* yield text[cursor:]                                        (generate)
GenerateYield(text, cur) == SliceFrom(text, cur)

\* the assignment to cursor is lost
NextCursor_Stuck(text) == 0

\* cursor = len(text) - 1
NextCursor_OffByOne(text) == IF Len(text) > 0 THEN Len(text) - 1 ELSE 0

\* cursor = len(text)
NextCursor(text) == Len(text)

\* yield assistant_message.strip(): trailing whitespace is lost as well
ChatYield_StripBoth(flag, assistant_message) ==
  IF ~flag THEN <<assistant_message>>
  ELSE IF strip(assistant_message) # <<>> THEN <<strip(assistant_message)>>
  ELSE <<>>

\* the fragments one iteration of the chat loop yields (none or one)
ChatYield(flag, assistant_message) ==
  IF ~flag THEN <<assistant_message>>
  ELSE IF strip(assistant_message) # <<>> THEN <<lstrip(assistant_message)>>
  ELSE <<>>

\* strip_flag = False is lost
ChatStripFlag_Stuck(flag, assistant_message) == flag

\* strip_flag after one iteration of the chat loop
ChatStripFlag(flag, assistant_message) ==
  IF ~flag THEN flag
  ELSE IF strip(assistant_message) # <<>> THEN FALSE
  ELSE flag

\* one iteration of `async for request_output in stream` in generate
GenerateSnapshot(T, n) ==
  /\ pc = "streaming" /\ mode = "generate"
  /\ Len(snaps) < n
  /\ \E text \in T :
       /\ snaps' = Append(snaps, text)
       /\ out' = Append(out, GenerateYield(text, cursor))
       /\ outAt' = Append(outAt, cursor)
       /\ cursor' = NextCursor(text)
  /\ UNCHANGED <<envVars, concVars, normVars, cacheVars, callVars, strip_flag, pc, mode>>

\* one iteration of `async for request_output in stream` in chat
ChatSnapshot(T, n) ==
  /\ pc = "streaming" /\ mode = "chat"
  /\ Len(snaps) < n
  /\ \E text \in T :
       LET assistant_message == SliceFrom(text, cursor)
           yielded == ChatYield(strip_flag, assistant_message)
       IN /\ snaps' = Append(snaps, text)
          /\ out' = out \o yielded
          /\ outAt' = IF yielded = <<>> THEN outAt
                      ELSE Append(outAt, cursor + Len(assistant_message) - Len(yielded[1]))
          /\ strip_flag' = ChatStripFlag(strip_flag, assistant_message)
          /\ cursor' = NextCursor(text)
  /\ UNCHANGED <<envVars, concVars, normVars, cacheVars, callVars, pc, mode>>

\* the engine's stream is exhausted: the async for loop and the generator end
StreamEnd ==
  /\ pc = "streaming"
  /\ pc' = "done"
  /\ UNCHANGED <<envVars, concVars, normVars, cacheVars, callVars, streamVars, mode>>

\* ------------------------------------------------------------ template cache
TemplateNames == {"chatml", "llama"}
KeyMissing == [tag |-> "missing", v |-> <<>>]
Path(components) == [tag |-> "path", v |-> components]

\* contents of chat_templates/chat_templates/
AssetFiles ==
  [f \in {"chatml.jinja", "llama.jinja", "gone.jinja"} |->
     CASE f = "chatml.jinja" ->
            [exists |-> TRUE,
             text |-> <<"{", "\n", " ", " ", " ", " ", "m", "\n", "}">>]
       [] f = "llama.jinja" ->
            [exists |-> TRUE, text |-> <<"[", " ", "s", "]">>]
       [] OTHER -> [exists |-> FALSE, text |-> <<>>]]

NoDescriptor ==
  [exists |-> FALSE, chat_template |-> KeyMissing,
   stop_str |-> KeyMissing, system_prompt |-> KeyMissing]

\* descriptors whose load succeeds
GoodDescriptors ==
  [exists : {TRUE},
   chat_template : {Path(<<"chat_templates", "chatml.jinja">>),
                    Path(<<"llama.jinja">>)},
   stop_str : {KeyMissing, PyStr(""), PyStr("<|end|>")},
   system_prompt : {KeyMissing, PyStr(""), PyStr("be terse")}]

\* descriptors whose load raises
BadDescriptors ==
  {NoDescriptor,
   [exists |-> TRUE, chat_template |-> KeyMissing,
    stop_str |-> PyStr(""), system_prompt |-> PyStr("")],
   [exists |-> TRUE, chat_template |-> Path(<<"chat_templates", "gone.jinja">>),
    stop_str |-> PyStr(""), system_prompt |-> PyStr("")]}

\* str.replace("    ", ""): non-overlapping runs, left to right
RECURSIVE RemoveIndent(_)
RemoveIndent(s) ==
  IF s = <<>> THEN <<>>
  ELSE IF Len(s) >= IndentRun /\ \A i \in 1..IndentRun : s[i] = " "
       THEN RemoveIndent(SubSeq(s, IndentRun + 1, Len(s)))
       ELSE <<Head(s)>> \o RemoveIndent(Tail(s))

\* str.replace("\n", "")
RemoveNewlines(s) == SelectSeq(s, LAMBDA c : c # "\n")

\* chat_template.replace("    ", ""): the second replace is lost
Normalize_IndentOnly(text) == RemoveIndent(text)

\* chat_template.replace("    ", "").replace("\n", "")
Normalize(text) == RemoveNewlines(RemoveIndent(text))

NoConfig ==
  [chat_template |-> KeyMissing, stop_str |-> KeyMissing,
   system_prompt |-> KeyMissing, template |-> <<>>]

\* the body of _get_gen_config: the value returned or the exception raised,
\* and the number of open() calls made
LoadGenConfig(community_chat_template) ==
  LET d == descriptors[community_chat_template]
  IN IF ~d.exists
     THEN [ok |-> FALSE, err |-> "FileNotFoundError", opened |-> 1, value |-> NoConfig]
     ELSE IF d.chat_template = KeyMissing
     THEN [ok |-> FALSE, err |-> "KeyError", opened |-> 1, value |-> NoConfig]
     ELSE LET chat_template_file == d.chat_template.v[Len(d.chat_template.v)]
              a == assets[chat_template_file]
          IN IF ~a.exists
             THEN [ok |-> FALSE, err |-> "FileNotFoundError", opened |-> 2,
                   value |-> NoConfig]
             ELSE [ok |-> TRUE, err |-> "", opened |-> 2,
                   value |-> [chat_template |-> d.chat_template,
                              stop_str |-> d.stop_str,
                              system_prompt |-> d.system_prompt,
                              template |-> Normalize(a.text)]]

\* does the lru_cache wrapper find the key
CacheHit(c, key) == \E i \in 1..Len(c) : c[i].key = key

\* cache after a lookup of key that hit: the entry becomes the most recent
CacheTouch(c, key) ==
  LET i == CHOOSE j \in 1..Len(c) : c[j].key = key
  IN SelectSeq(c, LAMBDA e : e.key # key) \o <<c[i]>>

\* lru_cache(maxsize=None): nothing is ever evicted
CacheInsert_Unbounded(c, key, value) == Append(c, [key |-> key, value |-> value])

\* cache after a miss whose load returned value: the oldest entry is evicted
\* when the cache is full
CacheInsert(c, key, value) ==
  LET kept == IF Len(c) >= LruMaxsize THEN SubSeq(c, Len(c) - LruMaxsize + 2, Len(c)) ELSE c
  IN Append(kept, [key |-> key, value |-> value])

\* _get_gen_config without its lru_cache decorator
GetGenConfig_Uncached(c, name) ==
  LET r == LoadGenConfig(name)
  IN [ok |-> r.ok, err |-> r.err, value |-> r.value, loaded |-> TRUE,
      opened |-> r.opened, cache |-> c]

\* the wrapper keeps what a failed load left behind as if it were the result
GetGenConfig_CachesFailure(c, name) ==
  IF CacheHit(c, name)
  THEN LET i == CHOOSE j \in 1..Len(c) : c[j].key = name
       IN [ok |-> TRUE, err |-> "", value |-> c[i].value, loaded |-> FALSE,
           opened |-> 0, cache |-> CacheTouch(c, name)]
  ELSE LET r == LoadGenConfig(name)
       IN [ok |-> r.ok, err |-> r.err, value |-> r.value, loaded |-> TRUE,
           opened |-> r.opened, cache |-> CacheInsert(c, name, r.value)]

\* _get_gen_config(name) through functools.lru_cache(maxsize=1): an exception
\* of the body propagates and leaves the cache as it was
GetGenConfig(c, name) ==
  IF CacheHit(c, name)
  THEN LET i == CHOOSE j \in 1..Len(c) : c[j].key = name
       IN [ok |-> TRUE, err |-> "", value |-> c[i].value, loaded |-> FALSE,
           opened |-> 0, cache |-> CacheTouch(c, name)]
  ELSE LET r == LoadGenConfig(name)
       IN [ok |-> r.ok, err |-> r.err, value |-> r.value, loaded |-> TRUE,
           opened |-> r.opened,
           cache |-> IF r.ok THEN CacheInsert(c, name, r.value) ELSE c]

NoCall == [name |-> "", ok |-> FALSE, err |-> "", value |-> NoConfig, hit |-> FALSE]

\* the probe's view of one call of _get_gen_config
Probe(name, r) ==
  /\ cache' = r.cache
  /\ loads' = IF r.loaded THEN [loads EXCEPT ![name] = @ + 1] ELSE loads
  /\ opens' = opens + r.opened
  /\ last' = [name |-> name, ok |-> r.ok, err |-> r.err, value |-> r.value,
              hit |-> ~r.loaded]
  /\ failed' = IF r.ok THEN failed ELSE [failed EXCEPT ![name] = r.err]

\* a call of _get_gen_config(name)
Resolve ==
  /\ pc = "idle"
  /\ \E name \in TemplateNames :
       LET r == GetGenConfig(cache, name)
       IN /\ r.loaded => loads[name] < MaxCalls
          /\ Probe(name, r)
  /\ UNCHANGED <<envVars, concVars, normVars, callVars, streamVars, pc, mode>>

\* ------------------------------------------------------- request construction
Unset == [tag |-> "unset", v |-> <<>>]
NoRef == -1
NoRole == "<none>"

\* message list objects: 0 is the default of the messages parameter, which
\* every call that omits messages receives
DefaultMessages == 0
HeapInit ==
  [r \in 0..4 |->
     CASE r = 0 -> <<[role |-> "user", content |-> "What is the meaning of life?"]>>
       [] r = 1 -> <<[role |-> "user", content |-> "hi"]>>
       [] r = 2 -> <<[role |-> "system", content |-> "x"],
                     [role |-> "user", content |-> "hi"]>>
       [] r = 3 -> <<>>
       [] r = 4 -> <<[role |-> NoRole, content |-> "hi"]>>]

MaxTokensInputs == {MinMaxTokens - 1, MinMaxTokens, MaxModelLen, MaxModelLen + 1}
ChatStopInputs ==
  {PyNone, PyStr(""), PyStr("###"), PyList(<<>>), PyList(<<"###", "END">>)}
GenerateStopInputs == {PyList(<<>>), PyList(<<"###">>)}
StopTokenIdInputs == {PyNone, PyList(<<2>>)}
EosTokens == {PyNone, PyStr("</s>")}

NoArgs ==
  [max_tokens |-> 0, stop |-> PyNone, stop_token_ids |-> PyNone,
   messages |-> NoRef, prompt |-> ""]
NoRequest ==
  [added |-> FALSE, prompt |-> PyNone, max_tokens |-> 0,
   stop |-> PyNone, stop_token_ids |-> PyNone]
NoRender == [called |-> FALSE, messages |-> <<>>]

\* Gt(128), Lt(...) in place of Ge, Le
ValidMaxTokens_Strict(max_tokens) ==
  /\ max_tokens > MinMaxTokens
  /\ max_tokens < MaxModelLen

\* Annotated[int, Ge(128), Le(ENGINE_CONFIG["max_model_len"])]
ValidMaxTokens(max_tokens) ==
  /\ max_tokens >= MinMaxTokens
  /\ max_tokens <= MaxModelLen

\* the template branch falls back to the tokenizer's EOS token when the
\* template has no stop string
ResolveStop_EosFallback(stop, template, stop_str, eos) ==
  IF ~Truthy(stop)
  THEN IF Truthy(template) /\ Truthy(stop_str) THEN PyList(<<stop_str.v[1]>>)
       ELSE IF eos # PyNone THEN PyList(<<eos.v[1]>>) ELSE PyList(<<>>)
  ELSE stop

\* `if stop is None` in place of `if not stop`
ResolveStop_NoneOnly(stop, template, stop_str, eos) ==
  IF stop # PyNone THEN stop
  ELSE IF Truthy(template)
       THEN IF Truthy(stop_str) THEN PyList(<<stop_str.v[1]>>) ELSE PyList(<<>>)
       ELSE IF eos # PyNone THEN PyList(<<eos.v[1]>>) ELSE PyList(<<>>)

\* stop as it stands after the if CHAT_TEMPLATE / else block; stop_str is
\* the value of gen_config["stop_str"] when the template branch reads it
ResolveStop(stop, template, stop_str, eos) ==
  IF Truthy(template)
  THEN IF ~Truthy(stop)
       THEN IF Truthy(stop_str) THEN PyList(<<stop_str.v[1]>>) ELSE PyList(<<>>)
       ELSE stop
  ELSE IF ~Truthy(stop)
       THEN IF eos # PyNone THEN PyList(<<eos.v[1]>>) ELSE PyList(<<>>)
       ELSE stop

\* if stop_token_ids is None: stop_token_ids = []
NormalizeStopTokenIds(stop_token_ids) ==
  IF stop_token_ids = PyNone THEN PyList(<<>>) ELSE stop_token_ids

\* messages[0].get("role")
FirstRole(msgs) == msgs[1].role

\* the system message is prepended whatever the first role is
BuildMessages_Always(h, ref, system_prompt) ==
  IF Truthy(system_prompt)
  THEN [heap |-> h,
        messages |-> <<[role |-> "system", content |-> system_prompt.v[1]]>> \o h[ref]]
  ELSE [heap |-> h, messages |-> h[ref]]

\* messages.insert(0, ...): the system message goes into the caller's list
BuildMessages_InPlace(h, ref, system_prompt) ==
  IF Truthy(system_prompt) /\ h[ref][1].role # "system"
  THEN LET msgs == <<[role |-> "system", content |-> system_prompt.v[1]]>> \o h[ref]
       IN [heap |-> [h EXCEPT ![ref] = msgs], messages |-> msgs]
  ELSE [heap |-> h, messages |-> h[ref]]

\* if system_prompt and messages[0].get("role") != "system":
\*     messages = [dict(role="system", content=system_prompt)] + messages
\* gives the heap afterwards and the list the local name messages is bound to
BuildMessages(h, ref, system_prompt) ==
  IF Truthy(system_prompt) /\ FirstRole(h[ref]) # "system"
  THEN [heap |-> h,
        messages |-> <<[role |-> "system", content |-> system_prompt.v[1]]>> \o h[ref]]
  ELSE [heap |-> h, messages |-> h[ref]]

\* the body of chat up to the await of add_request, for a call whose
\* arguments passed validation
ChatBody(ref, max_tokens, stop, stop_token_ids) ==
  LET active == Truthy(CHAT_TEMPLATE)
      r == IF active THEN GetGenConfig(cache, CHAT_TEMPLATE.v[1])
           ELSE [ok |-> TRUE, err |-> "", value |-> NoConfig, loaded |-> FALSE,
                 opened |-> 0, cache |-> cache]
      gen_config == r.value
      stopKeyError == active /\ ~Truthy(stop) /\ gen_config.stop_str = KeyMissing
      promptKeyError == active /\ gen_config.system_prompt = KeyMissing
      system_prompt == IF active THEN gen_config.system_prompt ELSE PyNone
      template == IF active THEN gen_config.template ELSE tokenizer_chat_template
      resolved == ResolveStop(stop, CHAT_TEMPLATE, gen_config.stop_str, eos_token)
      indexError == Truthy(system_prompt) /\ heap[ref] = <<>>
      built == BuildMessages(heap, ref, system_prompt)
  IN /\ r.loaded => loads[CHAT_TEMPLATE.v[1]] < MaxCalls
     /\ IF active THEN Probe(CHAT_TEMPLATE.v[1], r)
        ELSE UNCHANGED cacheVars
     /\ IF ~r.ok \/ stopKeyError \/ promptKeyError
        THEN /\ pc' = "error"
             /\ UNCHANGED <<tokenizer_chat_template, heap, engineReq, rendered>>
        ELSE IF indexError
        THEN /\ pc' = "error"
             /\ tokenizer_chat_template' = template
             /\ UNCHANGED <<heap, engineReq, rendered>>
        ELSE /\ pc' = "added"
             /\ tokenizer_chat_template' = template
             /\ heap' = built.heap
             /\ rendered' = [called |-> TRUE, messages |-> built.messages]
             /\ engineReq' =
                  [added |-> TRUE,
                   prompt |-> [tag |-> "rendered",
                               v |-> <<template, built.messages>>],
                   max_tokens |-> max_tokens,
                   stop |-> resolved,
                   stop_token_ids |-> NormalizeStopTokenIds(stop_token_ids)]

\* a call of VLLM.chat, from the validation of its arguments to the await of
\* engine.add_request
ChatCall ==
  /\ pc = "idle"
  /\ \E ref \in DOMAIN heap, max_tokens \in MaxTokensInputs,
        stop \in ChatStopInputs, stop_token_ids \in StopTokenIdInputs :
       /\ mode' = "chat"
       /\ args' = [max_tokens |-> max_tokens, stop |-> stop,
                   stop_token_ids |-> stop_token_ids, messages |-> ref,
                   prompt |-> ""]
       /\ IF ValidMaxTokens(max_tokens)
          THEN ChatBody(ref, max_tokens, stop, stop_token_ids)
          ELSE /\ pc' = "rejected"
               /\ UNCHANGED <<cacheVars, tokenizer_chat_template, heap,
                              engineReq, rendered>>
  /\ UNCHANGED <<envVars, concVars, normVars, streamVars>>

\* a call of VLLM.generate, from the validation of its arguments to the await
\* of engine.add_request
GenerateCall ==
  /\ pc = "idle"
  /\ \E prompt \in {"Explain superconductors like I'm five years old", "p"},
        max_tokens \in MaxTokensInputs, stop \in GenerateStopInputs :
       /\ mode' = "generate"
       /\ args' = [max_tokens |-> max_tokens, stop |-> stop,
                   stop_token_ids |-> PyNone, messages |-> NoRef,
                   prompt |-> prompt]
       /\ IF ValidMaxTokens(max_tokens)
          THEN /\ pc' = "added"
               /\ engineReq' = [added |-> TRUE, prompt |-> PyStr(prompt),
                                max_tokens |-> max_tokens, stop |-> stop,
                                stop_token_ids |-> Unset]
          ELSE /\ pc' = "rejected"
               /\ UNCHANGED engineReq
  /\ UNCHANGED <<envVars, concVars, normVars, cacheVars, streamVars, tokenizer_chat_template,
                 heap, rendered>>

\* add_request returns the stream: the engine has taken the request, and the
\* arguments of the call are read no more
StreamStart ==
  /\ pc = "added"
  /\ pc' = "streaming"
  /\ cursor' = 0
  /\ strip_flag' = (mode = "chat")
  /\ args' = NoArgs
  /\ engineReq' = NoRequest
  /\ rendered' = NoRender
  /\ UNCHANGED <<envVars, concVars, normVars, cacheVars, tokenizer_chat_template, heap,
                 snaps, out, outAt, mode>>

\* the request is over; the service takes the next one
NextRequest ==
  /\ pc \in {"done", "rejected", "error"}
  /\ pc' = "idle"
  /\ mode' = "none"
  /\ args' = NoArgs
  /\ engineReq' = NoRequest
  /\ rendered' = NoRender
  /\ cursor' = 0
  /\ strip_flag' = FALSE
  /\ snaps' = <<>>
  /\ out' = <<>>
  /\ outAt' = <<>>
  /\ UNCHANGED <<envVars, concVars, normVars, cacheVars, tokenizer_chat_template, heap>>

\* ------------------------------------------------------------ specifications
NativeTemplate == <<"n">>

\* the requests served side by side
Reqs == {"r1", "r2"}

NoCoroutine ==
  [pc |-> "idle", mode |-> "none", id |-> 0, cursor |-> 0, strip_flag |-> FALSE,
   snaps |-> <<>>, out |-> <<>>, stop |-> PyNone, gen_config |-> NoConfig,
   template |-> <<>>, resolved |-> FALSE]
NoEngine == [status |-> <<>>, aborts |-> {}]
NoNorm == [input |-> <<>>, output |-> <<>>, again |-> <<>>, applied |-> 0]

\* no concurrent request is being served, no template text is being normalized
OtherIdle ==
  /\ reqs = [r \in Reqs |-> NoCoroutine]
  /\ engine = NoEngine
  /\ norm = NoNorm

IdleRequest ==
  /\ pc = "idle" /\ mode = "none"
  /\ args = NoArgs /\ engineReq = NoRequest /\ rendered = NoRender
  /\ cursor = 0 /\ strip_flag = FALSE
  /\ snaps = <<>> /\ out = <<>> /\ outAt = <<>>

EmptyCache ==
  /\ cache = <<>>
  /\ loads = [n \in TemplateNames |-> 0]
  /\ opens = 0
  /\ last = NoCall
  /\ failed = [n \in TemplateNames |-> ""]

\* The service after module import and VLLM.__init__.  With a chat template
\* configured, the decorator argument _get_gen_config(CHAT_TEMPLATE)["template"]
\* has been evaluated, and the import succeeded.
Init ==
  /\ CHAT_TEMPLATE \in {PyNone, PyStr(""), PyStr("chatml")}
  /\ assets = AssetFiles
  /\ descriptors \in
       IF Truthy(CHAT_TEMPLATE)
       THEN {[n \in TemplateNames |-> IF n = CHAT_TEMPLATE.v[1] THEN d ELSE NoDescriptor] :
               d \in {g \in GoodDescriptors :
                        g.chat_template = Path(<<"chat_templates", "chatml.jinja">>)}}
       ELSE {[n \in TemplateNames |-> NoDescriptor]}
  /\ eos_token \in EosTokens
  /\ tokenizer_chat_template = NativeTemplate
  /\ heap = HeapInit
  /\ IF Truthy(CHAT_TEMPLATE)
     THEN LET name == CHAT_TEMPLATE.v[1]
              r == GetGenConfig(<<>>, name)
          IN /\ r.ok
             /\ cache = r.cache
             /\ loads = [n \in TemplateNames |-> IF n = name THEN 1 ELSE 0]
             /\ opens = r.opened
             /\ last = [name |-> name, ok |-> r.ok, err |-> r.err,
                        value |-> r.value, hit |-> FALSE]
             /\ failed = [n \in TemplateNames |-> ""]
     ELSE EmptyCache
  /\ IdleRequest
  /\ OtherIdle

Next ==
  \/ ChatCall
  \/ GenerateCall
  \/ StreamStart
  \/ GenerateSnapshot(ApiTexts, ApiMaxSnaps)
  \/ ChatSnapshot(ApiTexts, ApiMaxSnaps)
  \/ StreamEnd
  \/ NextRequest

Spec == Init /\ [][Next]_vars

\* One stream of either handler, from the return of add_request on, fed by
\* an engine that may send any text as the next snapshot.
InitStream ==
  /\ CHAT_TEMPLATE = PyNone
  /\ assets = AssetFiles
  /\ descriptors = [n \in TemplateNames |-> NoDescriptor]
  /\ eos_token = PyStr("</s>")
  /\ tokenizer_chat_template = NativeTemplate
  /\ heap = HeapInit
  /\ EmptyCache
  /\ pc = "streaming" /\ mode \in {"generate", "chat"}
  /\ args = NoArgs /\ engineReq = NoRequest /\ rendered = NoRender
  /\ cursor = 0 /\ strip_flag = (mode = "chat")
  /\ snaps = <<>> /\ out = <<>> /\ outAt = <<>>
  /\ OtherIdle

NextStream ==
  \/ GenerateSnapshot(Texts, MaxSnaps)
  \/ ChatSnapshot(Texts, MaxSnaps)
  \/ StreamEnd

SpecStream == InitStream /\ [][NextStream]_vars

\* _get_gen_config called with any of the template names, over any contents
\* of the descriptor directory, starting from an empty cache.
InitCache ==
  /\ CHAT_TEMPLATE = PyNone
  /\ assets = AssetFiles
  /\ descriptors \in [TemplateNames -> GoodDescriptors \cup BadDescriptors]
  /\ eos_token = PyNone
  /\ tokenizer_chat_template = NativeTemplate
  /\ heap = HeapInit
  /\ EmptyCache
  /\ IdleRequest
  /\ OtherIdle

NextCache == Resolve

SpecCache == InitCache /\ [][NextCache]_vars

\* ------------------------------------------------------- concurrent requests
\* Both handlers are coroutines on one event loop: a coroutine runs alone
\* from one await to the next.  The awaits are the call of add_request and
\* every step of `async for ... in stream`.
ConcMaxTokensInputs == {MinMaxTokens - 1, MaxModelLen}

SetReq(r, fields) == reqs' = [reqs EXCEPT ![r] = fields]

\* uuid.uuid4().hex: an id no earlier request has
FreshId == Len(engine.status) + 1

\* engine.add_request(id, prompt, params): the engine runs the request
EngineAdd == [engine EXCEPT !.status = Append(@, "running")]

\* generate, from the validation of its arguments to the await of add_request
ConcGenerateCall(r) ==
  /\ reqs[r].pc = "idle"
  /\ \E max_tokens \in ConcMaxTokensInputs :
       IF ValidMaxTokens(max_tokens)
       THEN /\ SetReq(r, [reqs[r] EXCEPT !.pc = "added", !.mode = "generate",
                                         !.id = FreshId, !.stop = PyList(<<>>)])
            /\ engine' = EngineAdd
       ELSE /\ SetReq(r, [reqs[r] EXCEPT !.pc = "rejected", !.mode = "generate"])
            /\ UNCHANGED engine
  /\ UNCHANGED <<envVars, cacheVars, callVars, streamVars, pc, mode, normVars>>

\* chat, from the validation of its arguments to the await of add_request,
\* called with the default messages and no stop
ConcChatCall(r) ==
  /\ reqs[r].pc = "idle"
  /\ \E max_tokens \in ConcMaxTokensInputs :
       IF ~ValidMaxTokens(max_tokens)
       THEN /\ SetReq(r, [reqs[r] EXCEPT !.pc = "rejected", !.mode = "chat"])
            /\ UNCHANGED <<engine, cacheVars, tokenizer_chat_template, heap>>
       ELSE
         LET active == Truthy(CHAT_TEMPLATE)
             g == IF active THEN GetGenConfig(cache, CHAT_TEMPLATE.v[1])
                  ELSE [ok |-> TRUE, err |-> "", value |-> NoConfig,
                        loaded |-> FALSE, opened |-> 0, cache |-> cache]
             gen_config == g.value
             keyError == active /\ (gen_config.stop_str = KeyMissing
                                    \/ gen_config.system_prompt = KeyMissing)
             system_prompt == IF active THEN gen_config.system_prompt ELSE PyNone
             template == IF active THEN gen_config.template
                         ELSE tokenizer_chat_template
             built == BuildMessages(heap, DefaultMessages, system_prompt)
         IN /\ g.loaded => loads[CHAT_TEMPLATE.v[1]] < MaxCalls
            /\ IF active THEN Probe(CHAT_TEMPLATE.v[1], g) ELSE UNCHANGED cacheVars
            /\ IF ~g.ok \/ keyError
               THEN /\ SetReq(r, [reqs[r] EXCEPT !.pc = "error", !.mode = "chat"])
                    /\ UNCHANGED <<engine, tokenizer_chat_template, heap>>
               ELSE /\ tokenizer_chat_template' = template
                    /\ heap' = built.heap
                    /\ engine' = EngineAdd
                    /\ SetReq(r, [reqs[r] EXCEPT
                                    !.pc = "added", !.mode = "chat", !.id = FreshId,
                                    !.stop = ResolveStop(PyNone, CHAT_TEMPLATE,
                                                         gen_config.stop_str, eos_token),
                                    !.gen_config = gen_config,
                                    !.template = template,
                                    !.resolved = active])
  /\ UNCHANGED <<envVars, args, engineReq, rendered, streamVars, pc, mode, normVars>>

\* add_request returns the stream; cursor = 0, strip_flag = True
ConcStreamStart(r) ==
  /\ reqs[r].pc = "added"
  /\ SetReq(r, [reqs[r] EXCEPT !.pc = "streaming", !.cursor = 0,
                               !.strip_flag = (reqs[r].mode = "chat")])
  /\ UNCHANGED <<envVars, cacheVars, callVars, streamVars, pc, mode, engine, normVars>>

\* the engine sends a snapshot and generate's loop body runs on it
ConcGenerateSnapshot(r) ==
  /\ reqs[r].pc = "streaming" /\ reqs[r].mode = "generate"
  /\ engine.status[reqs[r].id] = "running"
  /\ Len(reqs[r].snaps) < ApiMaxSnaps
  /\ \E text \in ConcTexts :
       SetReq(r, [reqs[r] EXCEPT
                    !.snaps = Append(@, text),
                    !.out = Append(@, GenerateYield(text, reqs[r].cursor)),
                    !.cursor = NextCursor(text)])
  /\ UNCHANGED <<envVars, cacheVars, callVars, streamVars, pc, mode, engine, normVars>>

\* the engine sends a snapshot and chat's loop body runs on it
ConcChatSnapshot(r) ==
  /\ reqs[r].pc = "streaming" /\ reqs[r].mode = "chat"
  /\ engine.status[reqs[r].id] = "running"
  /\ Len(reqs[r].snaps) < ApiMaxSnaps
  /\ \E text \in ConcTexts :
       LET assistant_message == SliceFrom(text, reqs[r].cursor)
       IN SetReq(r, [reqs[r] EXCEPT
                       !.snaps = Append(@, text),
                       !.out = @ \o ChatYield(reqs[r].strip_flag, assistant_message),
                       !.strip_flag = ChatStripFlag(@, assistant_message),
                       !.cursor = NextCursor(text)])
  /\ UNCHANGED <<envVars, cacheVars, callVars, streamVars, pc, mode, engine, normVars>>

\* the engine finishes a request it is running and closes its stream
EngineFinish(r) ==
  /\ reqs[r].pc \in {"added", "streaming", "cancelled"}
  /\ engine.status[reqs[r].id] = "running"
  /\ engine' = [engine EXCEPT !.status[reqs[r].id] = "finished"]
  /\ UNCHANGED <<envVars, cacheVars, callVars, streamVars, pc, mode, reqs, normVars>>

\* the loop gives up while the engine still runs the request
StreamExhausted_Early(id) == TRUE

\* is the stream of request id exhausted
StreamExhausted(id) == engine.status[id] = "finished"

\* `async for` finds the stream exhausted: the loop and the generator end
ConcStreamEnd(r) ==
  /\ reqs[r].pc = "streaming"
  /\ StreamExhausted(reqs[r].id)
  /\ SetReq(r, [reqs[r] EXCEPT !.pc = "done"])
  /\ UNCHANGED <<envVars, cacheVars, callVars, streamVars, pc, mode, engine, normVars>>

\* what the handlers do to the engine when their generator is cancelled or
\* closed at an await or a yield: they have no try/finally and keep no
\* request id, so the engine hears nothing
OnCancel(e, id) == e

\* the client disconnects or the call is cancelled while the coroutine waits
Cancel(r) ==
  /\ reqs[r].pc \in {"added", "streaming"}
  /\ SetReq(r, [reqs[r] EXCEPT !.pc = "cancelled"])
  /\ engine' = OnCancel(engine, reqs[r].id)
  /\ UNCHANGED <<envVars, cacheVars, callVars, streamVars, pc, mode, normVars>>

\* The service after import and __init__, serving the requests of Reqs side
\* by side; each request is one call.
InitConc ==
  /\ CHAT_TEMPLATE \in {PyNone, PyStr("chatml")}
  /\ assets = AssetFiles
  /\ descriptors =
       [n \in TemplateNames |->
          IF Truthy(CHAT_TEMPLATE) /\ n = CHAT_TEMPLATE.v[1]
          THEN [exists |-> TRUE,
                chat_template |-> Path(<<"chat_templates", "chatml.jinja">>),
                stop_str |-> PyStr("<|end|>"),
                system_prompt |-> PyStr("be terse")]
          ELSE NoDescriptor]
  /\ eos_token = PyStr("</s>")
  /\ tokenizer_chat_template = NativeTemplate
  /\ heap = HeapInit
  /\ IF Truthy(CHAT_TEMPLATE)
     THEN LET name == CHAT_TEMPLATE.v[1]
              g == GetGenConfig(<<>>, name)
          IN /\ g.ok
             /\ cache = g.cache
             /\ loads = [n \in TemplateNames |-> IF n = name THEN 1 ELSE 0]
             /\ opens = g.opened
             /\ last = [name |-> name, ok |-> g.ok, err |-> g.err,
                        value |-> g.value, hit |-> FALSE]
             /\ failed = [n \in TemplateNames |-> ""]
     ELSE EmptyCache
  /\ IdleRequest
  /\ OtherIdle

NextConc ==
  \E r \in Reqs :
    \/ ConcGenerateCall(r)
    \/ ConcChatCall(r)
    \/ ConcStreamStart(r)
    \/ ConcGenerateSnapshot(r)
    \/ ConcChatSnapshot(r)
    \/ EngineFinish(r)
    \/ ConcStreamEnd(r)
    \/ Cancel(r)

SpecConc == InitConc /\ [][NextConc]_vars

\* the event loop resumes a coroutine that waits on a stream once the
\* stream is exhausted
SpecConcFair == SpecConc /\ \A r \in Reqs : WF_vars(ConcStreamEnd(r))

\* -------------------------------------------------------- template texts
TemplateAlphabet == {" ", "\n", "a"}
TemplateTexts == SeqsUpTo(TemplateAlphabet, NormMaxLen)

\* gen_config["template"] = chat_template.replace("    ", "").replace("\n", "")
NormalizeTemplate ==
  /\ norm.applied = 0
  /\ norm' = [norm EXCEPT !.output = Normalize(norm.input), !.applied = 1]
  /\ UNCHANGED <<envVars, cacheVars, callVars, streamVars, pc, mode, concVars>>

\* the same expression applied to a template text it produced
NormalizeAgain ==
  /\ norm.applied = 1
  /\ norm' = [norm EXCEPT !.again = Normalize(norm.output), !.applied = 2]
  /\ UNCHANGED <<envVars, cacheVars, callVars, streamVars, pc, mode, concVars>>

\* The normalization of _get_gen_config applied to any template text.
InitNormalize ==
  /\ CHAT_TEMPLATE = PyNone
  /\ assets = AssetFiles
  /\ descriptors = [n \in TemplateNames |-> NoDescriptor]
  /\ eos_token = PyNone
  /\ tokenizer_chat_template = NativeTemplate
  /\ heap = HeapInit
  /\ EmptyCache
  /\ IdleRequest
  /\ reqs = [r \in Reqs |-> NoCoroutine]
  /\ engine = NoEngine
  /\ \E text \in TemplateTexts : norm = [NoNorm EXCEPT !.input = text]

NextNormalize == NormalizeTemplate \/ NormalizeAgain

SpecNormalize == InitNormalize /\ [][NextNormalize]_vars

\* ------------------------------------------------- properties: delta streamer
IsPrefix(s, t) == Len(s) <= Len(t) /\ \A i \in 1..Len(s) : s[i] = t[i]

\* each snapshot's text has the previous snapshot's text as a prefix
PrefixExtending(ss) == \A i \in 2..Len(ss) : IsPrefix(ss[i - 1], ss[i])

RECURSIVE Concat(_)
Concat(ss) == IF ss = <<>> THEN <<>> ELSE Head(ss) \o Concat(Tail(ss))

FinalText(ss) == IF ss = <<>> THEN <<>> ELSE ss[Len(ss)]

NonEmptyCount(ss) == Cardinality({i \in 1..Len(ss) : ss[i] # <<>>})

\* C1: Delta completeness.  In raw mode, whenever the snapshots received so
\* far are prefix-extending, the fragments yielded so far, concatenated in
\* emission order, are the text of the latest snapshot.
C1_DeltaCompleteness ==
  (mode = "generate" /\ PrefixExtending(snaps)) => Concat(out) = FinalText(snaps)

\* a finished raw stream of growing snapshots that yielded several fragments
C1_Witness ==
  /\ mode = "generate" /\ pc = "done"
  /\ Len(snaps) >= 3 /\ PrefixExtending(snaps)
  /\ NonEmptyCount(out) >= 2
  /\ Concat(out) = FinalText(snaps)

\* character positions of the final text that fragment i was cut from
Range(i) == (outAt[i] + 1)..(outAt[i] + Len(out[i]))

\* C2: No duplication.  In raw mode, for prefix-extending snapshots, every
\* fragment is the final text at the positions it was cut from, and no
\* position belongs to two fragments.
C2_NoDuplication ==
  (mode = "generate" /\ PrefixExtending(snaps)) =>
    /\ \A i \in 1..Len(out) :
         /\ Range(i) \subseteq 1..Len(FinalText(snaps))
         /\ \A p \in Range(i) : out[i][p - outAt[i]] = FinalText(snaps)[p]
    /\ \A i \in 1..Len(out) : \A j \in 1..Len(out) :
         i # j => Range(i) \cap Range(j) = {}

\* a raw stream with two non-empty fragments cut from adjacent ranges
C2_Witness ==
  /\ mode = "generate" /\ PrefixExtending(snaps)
  /\ \E i \in 1..Len(out) : \E j \in 1..Len(out) :
       /\ i < j /\ out[i] # <<>> /\ out[j] # <<>>
       /\ outAt[j] = outAt[i] + Len(out[i])

\* the delta of snapshot i: what its text adds after the length of the
\* snapshot before it
Delta(ss, i) == SubSeq(ss[i], (IF i = 1 THEN 0 ELSE Len(ss[i - 1])) + 1, Len(ss[i]))

HasContent(d) == \E k \in 1..Len(d) : d[k] \notin Whitespace

\* d without its leading whitespace
DropLeadingWs(d) ==
  IF ~HasContent(d) THEN <<>>
  ELSE LET k == CHOOSE m \in 1..Len(d) :
                  /\ d[m] \notin Whitespace
                  /\ \A l \in 1..(m - 1) : d[l] \in Whitespace
       IN SubSeq(d, k, Len(d))

\* index of the first delta with a non-whitespace character, 0 if none
FirstContent(ss) ==
  IF \E i \in 1..Len(ss) : HasContent(Delta(ss, i))
  THEN CHOOSE i \in 1..Len(ss) :
         /\ HasContent(Delta(ss, i))
         /\ \A j \in 1..(i - 1) : ~HasContent(Delta(ss, j))
  ELSE 0

ChatExpected(ss) ==
  LET f == FirstContent(ss)
  IN IF f = 0 THEN <<>>
     ELSE [j \in 1..(Len(ss) - f + 1) |->
             IF j = 1 THEN DropLeadingWs(Delta(ss, f)) ELSE Delta(ss, f + j - 1)]

ExampleOut == << <<"H", "i">>, <<" ", "t", "h", "e", "r", "e">> >>

\* C3: Chat leading-whitespace law.  In chat mode, for every snapshot
\* sequence, nothing is yielded before the first delta with a non-whitespace
\* character, that delta is yielded without its leading whitespace, and
\* every later delta is yielded as it is; the snapshots
\* "", " ", " Hi", " Hi there" yield exactly "Hi", " there".
C3_ChatLeadingWhitespace ==
  mode = "chat" =>
    /\ out = ChatExpected(snaps)
    /\ snaps = ExampleSnaps => out = ExampleOut

\* the chat stream of the example, with its two fragments
C3_Witness ==
  /\ mode = "chat" /\ snaps = ExampleSnaps /\ out = ExampleOut
  /\ ~strip_flag

\* C4: In chat mode, for prefix-extending snapshots, the fragments yielded so
\* far concatenate to the latest snapshot's text without its leading
\* whitespace (to nothing when that text is all whitespace or no snapshot
\* has arrived).
C4_ChatConcat ==
  (mode = "chat" /\ PrefixExtending(snaps)) =>
    Concat(out) = DropLeadingWs(FinalText(snaps))

\* a finished chat stream whose text has leading whitespace, content, and
\* a later fragment that begins with whitespace
C4_Witness ==
  /\ mode = "chat" /\ pc = "done" /\ PrefixExtending(snaps)
  /\ FinalText(snaps) # <<>> /\ FinalText(snaps)[1] \in Whitespace
  /\ Len(out) >= 2 /\ out[2] # <<>> /\ out[2][1] \in Whitespace
  /\ Concat(out) = DropLeadingWs(FinalText(snaps))

\* C16: Cursor invariant.  In both modes, the step that processes a snapshot
\* leaves cursor at the length of that snapshot's text, whether its delta was
\* yielded, yielded stripped or dropped; in chat mode the stripping flag,
\* once cleared, stays cleared.
C16_CursorInvariant ==
  [][/\ snaps' # snaps => cursor' = Len(snaps'[Len(snaps')])
     /\ (mode = "chat" /\ ~strip_flag) => ~strip_flag']_vars

\* a chat stream that dropped a whitespace delta, then yielded a stripped
\* one, with cursor at the end of the text
C16_Witness ==
  /\ mode = "chat" /\ ~strip_flag
  /\ Len(snaps) = 2 /\ snaps[1] = <<" ">> /\ snaps[2] = <<" ", "a">>
  /\ out = << <<"a">> >>
  /\ cursor = 2

\* C19: One fragment per snapshot in raw mode.  generate has yielded one
\* fragment for each snapshot received, in order, each the snapshot's delta
\* as it is; a snapshot with an empty delta gives an empty fragment.
C19_OneFragmentPerSnapshot ==
  mode = "generate" =>
    /\ Len(out) = Len(snaps)
    /\ \A i \in 1..Len(snaps) : out[i] = Delta(snaps, i)

\* a raw stream with a fragment of whitespace and an empty fragment for a
\* snapshot that did not grow
C19_Witness ==
  /\ mode = "generate" /\ Len(snaps) = 3 /\ Len(out) = 3
  /\ snaps[2] = snaps[1] /\ out[2] = <<>>
  /\ out[1] = <<" ">>
  /\ out[3] # <<>>

\* C10: Engine protocol violation.  Once a snapshot is not an extension of
\* the snapshot before it, the stream of the request is aborted with an
\* error and yields nothing more.
C10_ProtocolViolationAborts ==
  ~PrefixExtending(snaps) => pc = "error"

\* --------------------------------------------- properties: request construction
\* the stop string of the configured template, as its descriptor file has it
TemplateStopString == descriptors[CHAT_TEMPLATE.v[1]].stop_str.v[1]
TemplateSystemPrompt == descriptors[CHAT_TEMPLATE.v[1]].system_prompt.v[1]
TemplateActive == CHAT_TEMPLATE.tag = "str" /\ CHAT_TEMPLATE.v[1] # ""

ExplicitStop(stop) ==
  \/ stop.tag = "str" /\ stop.v # <<"">>
  \/ stop.tag = "list" /\ Len(stop.v) > 0

\* C5: Stop-sequence resolution.  The stop the engine receives from chat is
\* (1) the caller's stop, verbatim, when it is non-empty; (2) otherwise
\* [stopString] with a template active and a non-empty template stop string;
\* (3) otherwise [eosToken] with no template active and an EOS token defined;
\* (4) otherwise [].
C5_StopResolution ==
  (pc = "added" /\ mode = "chat") =>
    IF ExplicitStop(args.stop) THEN engineReq.stop = args.stop
    ELSE IF TemplateActive /\ TemplateStopString # ""
         THEN engineReq.stop = PyList(<<TemplateStopString>>)
    ELSE IF ~TemplateActive /\ eos_token.tag = "str"
         THEN engineReq.stop = PyList(<<eos_token.v[1]>>)
    ELSE engineReq.stop = PyList(<<>>)

\* a chat request under a template with an empty stop string and a tokenizer
\* with an EOS token, sent to the engine with an empty stop list
C5_Witness ==
  /\ pc = "added" /\ mode = "chat"
  /\ TemplateActive /\ TemplateStopString = ""
  /\ eos_token = PyStr("</s>")
  /\ args.stop = PyNone
  /\ engineReq.added /\ engineReq.stop = PyList(<<>>)

FalsyPresent(stop) == stop \in {PyStr(""), PyList(<<>>)}

\* C17: A caller stop that is present but empty (the empty string or the
\* empty list) is resolved as an absent one: the engine receives the
\* template stop string, the EOS token or the empty list by the fallback
\* rules, and the caller's empty value never displaces a defined fallback.
C17_FalsyStopFallsBack ==
  (pc = "added" /\ mode = "chat" /\ FalsyPresent(args.stop)) =>
    engineReq.stop =
      IF TemplateActive
      THEN IF TemplateStopString # "" THEN PyList(<<TemplateStopString>>)
           ELSE PyList(<<>>)
      ELSE IF eos_token.tag = "str" THEN PyList(<<eos_token.v[1]>>)
           ELSE PyList(<<>>)

\* a chat call with stop = "" and no template, sent to the engine with the
\* EOS token as its stop
C17_Witness ==
  /\ pc = "added" /\ mode = "chat"
  /\ args.stop = PyStr("")
  /\ ~TemplateActive /\ eos_token = PyStr("</s>")
  /\ engineReq.stop = PyList(<<"</s>">>)

\* C6: System-prompt injection.  The list handed to the renderer is the
\* system message followed by the caller's messages exactly when the
\* template's system prompt is non-empty and the first message's role is not
\* "system"; otherwise it is the caller's messages.
C6_SystemPromptInjection ==
  rendered.called =>
    LET msgs == HeapInit[args.messages]
        inject == /\ TemplateActive
                  /\ TemplateSystemPrompt # ""
                  /\ msgs # <<>>
                  /\ msgs[1].role # "system"
    IN rendered.messages =
         IF inject
         THEN <<[role |-> "system", content |-> TemplateSystemPrompt]>> \o msgs
         ELSE msgs

\* a chat call on a user-first list that got the system message prepended
C6_Witness ==
  /\ rendered.called /\ TemplateActive /\ TemplateSystemPrompt = "be terse"
  /\ HeapInit[args.messages][1].role = "user"
  /\ Len(rendered.messages) = Len(HeapInit[args.messages]) + 1
  /\ rendered.messages[1] = [role |-> "system", content |-> "be terse"]

\* C7: A chat call leaves every message list object of the caller, the
\* shared default list included, as it was before the call.
C7_MessagesNotMutated ==
  [][(pc = "idle" /\ mode' = "chat") =>
       \A r \in DOMAIN heap : heap'[r] = heap[r]]_vars

\* a chat call that omitted messages and rendered the default list with the
\* system message in front
C7_Witness ==
  /\ pc = "added" /\ mode = "chat"
  /\ args.messages = DefaultMessages
  /\ Len(rendered.messages) = Len(heap[DefaultMessages]) + 1
  /\ rendered.messages[1].role = "system"

\* C8: maxTokens bound.  In both handlers a call gets past validation iff
\* 128 <= maxTokens <= the context-length bound; a rejected call adds no
\* request to the engine and yields nothing; an accepted request carries
\* maxTokens to the engine as given.
C8_MaxTokensBound ==
  /\ pc \in {"rejected", "added", "error"} =>
       (pc # "rejected" <=> (128 <= args.max_tokens /\ args.max_tokens <= MaxModelLen))
  /\ pc = "rejected" => (~engineReq.added /\ snaps = <<>> /\ out = <<>>)
  /\ pc = "added" => (engineReq.added /\ engineReq.max_tokens = args.max_tokens)

\* a request with maxTokens = 128 that reached the engine
C8_Witness ==
  /\ pc = "added" /\ args.max_tokens = 128
  /\ engineReq.added /\ engineReq.max_tokens = 128

\* ------------------------------------------------- properties: template cache
\* the cache holds exactly the entry of name n
CacheKeyIs(c, n) == Len(c) = 1 /\ c[1].key = n

\* C9: Cache idempotence.  When the latest resolve succeeded, a resolve of
\* the same name right after it succeeds with an equal value, runs no load
\* and opens no file.
C9_CacheIdempotence ==
  [][(last.ok /\ last'.name = last.name) =>
       /\ last'.ok
       /\ last'.value = last.value
       /\ loads' = loads
       /\ opens' = opens]_vars

\* a resolve answered from the cache, after exactly one load of that name
C9_Witness ==
  /\ last.ok /\ last.hit
  /\ loads[last.name] = 1
  /\ opens = 2

\* C14 as claimed: once a resolve of a name has failed, every later resolve
\* of that name fails in the same way without a new load or file read.
C14_FailedLoadsNotRetried ==
  [][\A n \in TemplateNames :
       (failed[n] # "" /\ last'.name = n) =>
         /\ ~last'.ok
         /\ last'.err = failed[n]
         /\ loads' = loads
         /\ opens' = opens]_vars

\* C14: Failed loads are not memoized.  Once a resolve of a name has failed,
\* every later resolve of that name runs the load again, opens the
\* descriptor again and, the files being as they were, fails with the same
\* exception.
C14_FailedLoadsRetried ==
  [][\A n \in TemplateNames :
       (failed[n] # "" /\ last'.name = n) =>
         /\ ~last'.ok
         /\ last'.err = failed[n]
         /\ loads'[n] = loads[n] + 1
         /\ opens' > opens]_vars

\* a name that failed, another name resolved after it, and the first name
\* failing again
C14_Witness ==
  \E n \in TemplateNames :
    /\ failed[n] # "" /\ last.name = n /\ ~last.ok
    /\ loads[n] >= 2
    /\ \E m \in TemplateNames \ {n} : loads[m] >= 1

\* C18: Single-entry cache.  The cache never holds more than one entry; a
\* successful resolve of a name other than the one held replaces the entry,
\* and a resolve of a name that is not held runs a load.
C18_SingleEntryCache ==
  /\ [](Len(cache) <= 1)
  /\ [][\A n \in TemplateNames :
          (last'.name = n /\ ~CacheKeyIs(cache, n)) =>
            /\ loads'[n] = loads[n] + 1
            /\ last'.ok => CacheKeyIs(cache', n)]_vars

\* a name resolved, evicted by the other name, and loaded afresh
C18_Witness ==
  \E n \in TemplateNames : \E m \in TemplateNames \ {n} :
    /\ last.ok /\ last.name = n /\ ~last.hit
    /\ loads[n] = 2 /\ loads[m] >= 1
    /\ failed[m] = ""
    /\ Len(cache) = 1 /\ cache[1].key = n

\* --------------------------------------------- properties: concurrent requests
InEngine(r) == reqs[r].pc \in {"added", "streaming", "done", "cancelled"}
EngineStatus(r) == engine.status[reqs[r].id]

\* C11: Cancellation propagation.  A request cancelled after it was added to
\* the engine is not left running there without an abort issued for its id.
C11_CancelPropagates ==
  \A r \in Reqs :
    (reqs[r].pc = "cancelled" /\ EngineStatus(r) = "running") =>
      reqs[r].id \in engine.aborts

\* C12: Single-flight population.  Under every interleaving of the requests
\* with the resolve of module import, the body of _get_gen_config runs at
\* most once for a name, and every resolver holds the memoized value.
C12_SingleFlight ==
  /\ \A n \in TemplateNames : loads[n] <= 1
  /\ \A r \in Reqs : reqs[r].resolved =>
       /\ cache # <<>>
       /\ reqs[r].gen_config = cache[Len(cache)].value
  /\ \A r1 \in Reqs : \A r2 \in Reqs :
       (reqs[r1].resolved /\ reqs[r2].resolved) =>
         reqs[r1].gen_config = reqs[r2].gen_config

\* two chat requests in flight at once, both resolved, after one load
C12_Witness ==
  /\ \A r \in Reqs : reqs[r].resolved /\ reqs[r].pc \in {"added", "streaming"}
  /\ loads["chatml"] = 1
  /\ last.hit

\* C13: Termination.  A generator ends only after the engine closed its
\* stream, yields nothing once the stream is closed, ends (or is cancelled)
\* once the stream is closed, and has yielded nothing when it ends without
\* having received a snapshot.
C13_Termination ==
  /\ [](\A r \in Reqs : reqs[r].pc = "done" =>
          /\ EngineStatus(r) = "finished"
          /\ reqs[r].snaps = <<>> => reqs[r].out = <<>>)
  /\ [][\A r \in Reqs :
          (InEngine(r) /\ EngineStatus(r) = "finished") =>
            reqs'[r].out = reqs[r].out]_vars
  /\ \A r \in Reqs :
       (reqs[r].pc = "streaming" /\ EngineStatus(r) = "finished")
         ~> (reqs[r].pc \in {"done", "cancelled"})

\* a generator that ended after the engine closed a stream of two snapshots
C13_Witness ==
  \E r \in Reqs :
    /\ reqs[r].pc = "done" /\ EngineStatus(r) = "finished"
    /\ Len(reqs[r].snaps) = 2 /\ reqs[r].out # <<>>

\* the fragments request r yields when it runs alone on its snapshots
AloneOut(r) ==
  IF reqs[r].mode = "chat" THEN ChatExpected(reqs[r].snaps)
  ELSE [i \in 1..Len(reqs[r].snaps) |-> Delta(reqs[r].snaps, i)]

\* C15: Request isolation.  Under every interleaving each request yields
\* the fragments it yields when run alone, and no step of a request writes
\* state outside its own coroutine, the engine and the template cache.
C15_RequestIsolation ==
  /\ [](\A r \in Reqs : reqs[r].out = AloneOut(r))
  /\ [][UNCHANGED <<tokenizer_chat_template, heap>>]_vars

\* ------------------------------------------------ properties: template texts
NoNewline(t) == \A i \in 1..Len(t) : t[i] # "\n"
NoIndentRun(t) ==
  \A i \in 1..(Len(t) - 3) : ~(\A k \in 0..3 : t[i + k] = " ")

\* C20 as claimed: the normalized template has no newline and no run of four
\* spaces, and normalizing it again returns it unchanged.
C20_NormalizationPostcondition ==
  /\ norm.applied >= 1 => (NoNewline(norm.output) /\ NoIndentRun(norm.output))
  /\ norm.applied = 2 => norm.again = norm.output

\* C20: The normalized template has no newline; it has no run of four spaces
\* when the template text had no newline; and normalizing a normalized text
\* that has no run of four spaces returns it unchanged.
C20_NormalizationAmended ==
  /\ norm.applied >= 1 =>
       /\ NoNewline(norm.output)
       /\ NoNewline(norm.input) => NoIndentRun(norm.output)
  /\ (norm.applied = 2 /\ NoIndentRun(norm.output)) => norm.again = norm.output

\* a text with a newline and an indentation run, normalized twice
C20_Witness ==
  /\ norm.applied = 2
  /\ ~NoNewline(norm.input) /\ ~NoIndentRun(norm.input)
  /\ norm.output = <<"a">>
  /\ norm.again = norm.output

====
